---- MODULE Spec2Model ----
(***************************************************************************)
(* Model of src/subset.py: the city-based subsetting script.              *)
(*                                                                         *)
(* main() clears the target, discovers the foreign keys of the source,    *)
(* selects the seed rows of the root table, collects every row related to *)
(* them by a breadth-first traversal over the foreign keys (parents and   *)
(* children), and inserts the collected rows into the target, table by    *)
(* table.  The model steps through main() one database call at a time.    *)
(***************************************************************************)
EXTENDS Integers, Sequences, FiniteSets, TLC

(***************************************************************************)
(* Bounds of the model.                                                    *)
(***************************************************************************)
\* number of rows of the source database, all tables together
MaxRows == 3
\* number of inserts that fail for a reason other than a foreign key
MaxInsertFaults == 1
\* the enqueue counters stop counting here
EnqCap == 2
\* number of tables of the target whose TRUNCATE fails
MaxTruncateFaults == 1

\* Python's None / SQL NULL (subset.py:195, "is None")
NULL == 0

Tables == {"customers", "orders", "employees"}

Range(s) == {s[i] : i \in DOMAIN s}

Min(a, b) == IF a < b THEN a ELSE b

\* every ordering of a finite set, as sequences without repetition
Orderings(S) ==
    {s \in [1..Cardinality(S) -> S] : \A i, j \in 1..Cardinality(S) : s[i] = s[j] => i = j}

(***************************************************************************)
(* The source database: its catalog (information_schema) and its rows.     *)
(* Every table has the columns id, customer_id and employee_id; a column   *)
(* that no foreign key is declared on stays NULL (the traversal never      *)
(* reads it).  The program compares ids for equality only, so the rows of  *)
(* a table are numbered 1..n.                                              *)
(***************************************************************************)
\* one row of information_schema.KEY_COLUMN_USAGE with a referenced table
Edge(t, c, rt) ==
    [TABLE_NAME |-> t, COLUMN_NAME |-> c,
     REFERENCED_TABLE_NAME |-> rt, REFERENCED_COLUMN_NAME |-> "id"]

OrdersCustomer == Edge("orders", "customer_id", "customers")

OrdersEmployee == Edge("orders", "employee_id", "employees")

CustomersEmployee == Edge("customers", "employee_id", "employees")

EmployeesManager == Edge("employees", "employee_id", "employees")

EmployeesCustomer == Edge("employees", "customer_id", "customers")

AllPk == [t \in Tables |-> <<"id">>]

NoPk(t0) == [t \in Tables |-> IF t = t0 THEN <<>> ELSE <<"id">>]

\* the schemas the model runs on: root table, catalog rows of the foreign
\* keys in catalog order, primary key columns of each table
Schemas ==
    { \* orders reference customers and employees, employees their manager
      [root |-> "orders",
       fk |-> <<OrdersCustomer, OrdersEmployee, EmployeesManager>>, pk |-> AllPk],
      \* a chain entered in the middle: orders -> customers -> employees
      [root |-> "orders", fk |-> <<OrdersCustomer, CustomersEmployee>>, pk |-> AllPk],
      \* a cycle between two tables
      [root |-> "customers", fk |-> <<CustomersEmployee, EmployeesCustomer>>, pk |-> AllPk],
      \* a diamond: orders -> customers -> employees and orders -> employees
      [root |-> "customers",
       fk |-> <<OrdersCustomer, OrdersEmployee, CustomersEmployee>>, pk |-> AllPk],
      \* a table without a primary key: the root table, a child table
      [root |-> "customers", fk |-> <<OrdersCustomer, OrdersEmployee>>,
       pk |-> NoPk("customers")],
      [root |-> "customers", fk |-> <<OrdersCustomer, OrdersEmployee>>,
       pk |-> NoPk("orders")] }

FkCols(fk, t) == {e.COLUMN_NAME : e \in {x \in Range(fk) : x.TABLE_NAME = t}}

RefTableOf(fk, t, col) ==
    (CHOOSE e \in Range(fk) : e.TABLE_NAME = t /\ e.COLUMN_NAME = col).REFERENCED_TABLE_NAME

\* how many rows each table holds: at most MaxRows together
Sizes ==
    {sz \in [Tables -> 0..MaxRows] :
        sz["customers"] + sz["orders"] + sz["employees"] <= MaxRows}

\* the values of a column: NULL, the id of a row of the referenced table, or
\* one id that no row of the referenced table has (a dangling reference)
ColVals(fk, sz, t, col) ==
    IF col \in FkCols(fk, t)
    THEN {NULL} \cup 1..(sz[RefTableOf(fk, t, col)] + 1)
    ELSE {NULL}

\* the contents a table of sz[t] rows may have; its rows have the ids 1..sz[t]
TableRows(fk, sz, t) ==
    {{[id |-> i, customer_id |-> g[i][1], employee_id |-> g[i][2]] : i \in 1..sz[t]} :
        g \in [1..sz[t] -> ColVals(fk, sz, t, "customer_id")
                           \X ColVals(fk, sz, t, "employee_id")]}

Sources(fk) ==
    UNION {{[t \in Tables |-> IF t = "customers" THEN c
                              ELSE IF t = "orders" THEN o ELSE e] :
                c \in TableRows(fk, sz, "customers"),
                o \in TableRows(fk, sz, "orders"),
                e \in TableRows(fk, sz, "employees")} : sz \in Sizes}

(***************************************************************************)
(* State of main().                                                        *)
(***************************************************************************)
VARIABLES
    catalog,        \* information_schema of the source: [fk, pk]
    root_table,     \* cfg["root_table"]
    source,         \* rows of the source database, per table
    city_rows,      \* the rows of root_table whose city is in cfg["city_filter"]
    target,         \* rows of the target database, per table
    references,     \* outgoing foreign keys per table, as discover_fk returns them
    referenced_by,  \* incoming foreign keys per table
    root_pk,        \* primary key columns of root_table
    seeds,          \* result of the seed query, in the order the source returns it
    collected,      \* collected[t]: dict key -> row, in insertion order
    table_order,    \* list(collected.keys())
    pk_cache,       \* memo of ensure_pk
    q,              \* BFS queue of (table, pk_cols, pk_key)
    cur,            \* the entry popped last, with its row
    idx,            \* index of the foreign-key edge the loop is at
    ordered_tables, \* tables in insertion order (materialization)
    ti, ri,         \* table and row the insert loops are at
    pc,             \* position in main()
    err,            \* the exception that left main(), or "none"
    attempts,       \* history: every insert_row call with its outcome
    commits,        \* history: every tgt.commit() of the insert loop
    faults,         \* history: inserts failed for another reason than a foreign key
    enq,            \* history: number of q.append per (table, key), up to EnqCap
    expanded,       \* history: entries whose parent and child loops are finished
    dangling,       \* history: parent lookups that returned no row
    pk_calls,       \* history: number of get_pk catalog queries per table
    out,            \* what main() printed about the collected rows and their inserts
    uncleared,      \* history: tables of the target whose TRUNCATE failed
    run,            \* which run of the script this is: 1 or 2
    first           \* what run 1 collected and inserted, once it has ended

vars == <<catalog, root_table, source, city_rows, target, references, referenced_by,
          root_pk, seeds, collected, table_order, pk_cache, q, cur, idx,
          ordered_tables, ti, ri, pc, err, attempts, commits, faults, enq,
          expanded, dangling, pk_calls, out, uncleared, run, first>>

\* the inputs of a run
inputs == <<catalog, root_table, source, city_rows>>

\* what the traversal builds
traversal == <<collected, table_order, pk_cache, q, cur, idx, enq, expanded, dangling,
               pk_calls>>

\* the runs of the script
runs == <<run, first>>

\* what the materialization builds
materialization == <<ordered_tables, ti, ri, attempts, commits, faults>>

NoRow == [id |-> NULL, customer_id |-> NULL, employee_id |-> NULL]

NoEntry == [table |-> "", pk_cols |-> <<>>, pk_key |-> <<>>, row |-> NoRow]

\* run 1 has not ended yet
NoRun == [ended |-> FALSE]

\* what a previous run left in the target
StaleRow == [id |-> 1, customer_id |-> NULL, employee_id |-> NULL]

(***************************************************************************)
(* Helpers of the source.                                                  *)
(***************************************************************************)
\* get_pk: the catalog's primary key columns of a table, [] when it has none
get_pk(table) == catalog.pk[table]

\* d.get(t, [])
Get(d, t) == IF t \in DOMAIN d THEN d[t] ELSE <<>>

\* discover_fk: references[tbl] lists (ref_tbl, col, ref_col) in catalog order
discover_references(fk) ==
    [t \in {e.TABLE_NAME : e \in Range(fk)} |->
        LET mine == SelectSeq(fk, LAMBDA e : e.TABLE_NAME = t)
        IN  [i \in 1..Len(mine) |->
                <<mine[i].REFERENCED_TABLE_NAME, mine[i].COLUMN_NAME,
                  mine[i].REFERENCED_COLUMN_NAME>>]]

\* discover_fk: referenced_by[ref_tbl] lists (tbl, col, ref_col) in catalog order
discover_referenced_by(fk) ==
    [t \in {e.REFERENCED_TABLE_NAME : e \in Range(fk)} |->
        LET mine == SelectSeq(fk, LAMBDA e : e.REFERENCED_TABLE_NAME = t)
        IN  [i \in 1..Len(mine) |->
                <<mine[i].TABLE_NAME, mine[i].COLUMN_NAME,
                  mine[i].REFERENCED_COLUMN_NAME>>]]

\* mutant of RowKey: a table without primary key is keyed by its column id
RowKeyOrId(row, pk) ==
    IF pk = <<>> THEN <<row.id>> ELSE [i \in 1..Len(pk) |-> row[pk[i]]]

\* tuple(row[c] for c in pk)
RowKey(row, pk) == [i \in 1..Len(pk) |-> row[pk[i]]]

\* the keys of a dict kept as a sequence of [key, row]
Keys(d) == {d[i].key : i \in DOMAIN d}

\* d[key]
DictGet(d, key) == d[CHOOSE i \in DOMAIN d : d[i].key = key].row

\* d[key] = row: a new key goes last, an old key keeps its place
DictSet(d, key, row) ==
    IF key \in Keys(d)
    THEN [i \in DOMAIN d |-> IF d[i].key = key THEN [key |-> key, row |-> row] ELSE d[i]]
    ELSE Append(d, [key |-> key, row |-> row])

\* "keyp not in collected[parent_tbl]" and "keyc not in collected[child_tbl]"
NotCollected(coll, table, key) == key \notin Keys(coll[table])

\* collected is a defaultdict: a table enters keys() on its first access
Touch(order, table) == IF table \in Range(order) THEN order ELSE Append(order, table)

\* ensure_pk: the cache after the call
ensure_pk(cache, table) ==
    IF table \in DOMAIN cache THEN cache ELSE cache @@ (table :> get_pk(table))

\* the catalog queries after ensure_pk(table): one more when the table is not
\* in the cache (line 174)
ensure_pk_calls(calls, cache, table) ==
    IF table \in DOMAIN cache THEN calls ELSE [calls EXCEPT ![table] = @ + 1]

\* one more q.append of an entry
Count(e, entry) ==
    IF entry \in DOMAIN e THEN [e EXCEPT ![entry] = Min(@ + 1, EnqCap)]
    ELSE e @@ (entry :> 1)

QEntry(table, pk, key) == [table |-> table, pk_cols |-> pk, pk_key |-> key]

\* mutant of fetchone: the parent query has lost its WHERE clause
fetchone_unfiltered(table, col, val) == source[table]

\* cursor.fetchone() of "SELECT * FROM table WHERE col = val LIMIT 1": the rows
\* the source may return; none when the set is empty
fetchone(table, col, val) == {r \in source[table] : r[col] = val}

\* mutant of fetchall: the child query carries the parent query's LIMIT 1
fetchall_limit1(table, col, val) ==
    IF {r \in source[table] : r[col] = val} = {} THEN {}
    ELSE {CHOOSE r \in source[table] : r[col] = val}

\* cursor.fetchall() of "SELECT * FROM table WHERE col = val", as a set; the
\* source returns it in some order
fetchall(table, col, val) == {r \in source[table] : r[col] = val}

\* the traversal's data, as one record
Trav == [collected |-> collected, table_order |-> table_order, pk_cache |-> pk_cache,
         q |-> q, enq |-> enq, pk_calls |-> pk_calls]

\* mutant of Collect: a new row is stored, the q.append is missing
CollectNoAppend(st, table, row) ==
    LET cache == ensure_pk(st.pk_cache, table)
        key   == RowKey(row, cache[table])
        seen  == [st EXCEPT !.pk_cache = cache,
                            !.pk_calls = ensure_pk_calls(@, st.pk_cache, table),
                            !.table_order = Touch(st.table_order, table)]
    IN  IF NotCollected(st.collected, table, key)
        THEN [seen EXCEPT !.collected[table] = DictSet(@, key, row)]
        ELSE seen

\* lines 204-208 and 221-225: a fetched row of a table is keyed by the table's
\* primary key and, when its key is new, stored and enqueued
Collect(st, table, row) ==
    LET cache == ensure_pk(st.pk_cache, table)
        pk    == cache[table]
        key   == RowKey(row, pk)
        seen  == [st EXCEPT !.pk_cache = cache,
                            !.pk_calls = ensure_pk_calls(@, st.pk_cache, table),
                            !.table_order = Touch(st.table_order, table)]
    IN  IF NotCollected(st.collected, table, key)
        THEN [seen EXCEPT !.collected[table] = DictSet(@, key, row),
                          !.q = Append(st.q, QEntry(table, pk, key)),
                          !.enq = Count(st.enq, <<table, key>>)]
        ELSE seen

\* lines 220-225: the loop over the fetched rows
RECURSIVE CollectAll(_, _, _)
CollectAll(st, table, rows) ==
    IF rows = <<>> THEN st
    ELSE CollectAll(Collect(st, table, Head(rows)), table, Tail(rows))

\* mutant of SeedRow: the seed row is enqueued, line 182 is missing
SeedRowNotStored(st, row) ==
    LET key == RowKey(row, root_pk)
    IN  [st EXCEPT !.table_order = Touch(st.table_order, root_table),
                   !.q = Append(st.q, QEntry(root_table, root_pk, key)),
                   !.enq = Count(st.enq, <<root_table, key>>)]

\* lines 180-183: a seed row is stored under its key, replacing what the key
\* held, and enqueued
SeedRow(st, row) ==
    LET key == RowKey(row, root_pk)
    IN  [st EXCEPT !.collected[root_table] = DictSet(@, key, row),
                   !.table_order = Touch(st.table_order, root_table),
                   !.q = Append(st.q, QEntry(root_table, root_pk, key)),
                   !.enq = Count(st.enq, <<root_table, key>>)]

SetTrav(st) ==
    /\ collected' = st.collected
    /\ table_order' = st.table_order
    /\ pk_cache' = st.pk_cache
    /\ q' = st.q
    /\ enq' = st.enq
    /\ pk_calls' = st.pk_calls

\* where the loops of lines 194-225 are after iteration i of a phase:
\* the next parent edge, the first or next child edge, or back at "while q"
AfterIter(table, phase, i) ==
    LET np == Len(Get(references, table))
        nc == Len(Get(referenced_by, table))
    IN  IF phase = "parents" /\ i < np THEN <<"parents", i + 1>>
        ELSE IF phase = "parents" /\ nc > 0 THEN <<"children", 1>>
        ELSE IF phase = "children" /\ i < nc THEN <<"children", i + 1>>
        ELSE <<"loop", 0>>

Goto(pos) ==
    /\ pc' = pos[1]
    /\ idx' = pos[2]
    /\ expanded' = IF pos[1] = "loop"
                   THEN expanded \cup {<<cur'.table, cur'.pk_key>>}
                   ELSE expanded

\* len(references.get(t, [])), the sort key of line 233
RefCount(t) == Len(Get(references, t))

\* list.sort(key=RefCount): ascending and stable
RECURSIVE SortFrom(_, _)
SortFrom(order, k) ==
    IF k > Len(catalog.fk) THEN <<>>
    ELSE SelectSeq(order, LAMBDA t : RefCount(t) = k) \o SortFrom(order, k + 1)

\* mutant of sort: ascending, but tables with equal keys change places
sort_ties_reversed(order) ==
    SortFrom([i \in 1..Len(order) |-> order[Len(order) + 1 - i]], 0)

sort(order) == SortFrom(order, 0)

\* the target enforces the foreign keys of the catalog: an insert is refused
\* when a non-null foreign key of the row has no referenced row in the target
\* (the row itself counts for a self-reference)
FkSatisfied(table, row) ==
    \A e \in Range(catalog.fk) :
        (e.TABLE_NAME = table /\ row[e.COLUMN_NAME] # NULL) =>
            \E p \in target[e.REFERENCED_TABLE_NAME] \cup
                     (IF e.REFERENCED_TABLE_NAME = table THEN {row} ELSE {}) :
                p[e.REFERENCED_COLUMN_NAME] = row[e.COLUMN_NAME]

(***************************************************************************)
(* Init: a schema, a source database over it, the rows the city filter     *)
(* selects, and a target holding the rows of a previous run.               *)
(***************************************************************************)
Init ==
    /\ \E schema \in Schemas :
          /\ catalog = [fk |-> schema.fk, pk |-> schema.pk]
          /\ root_table = schema.root
          /\ source \in Sources(schema.fk)
    /\ city_rows \in SUBSET source[root_table]
    /\ target = [t \in Tables |-> {StaleRow}]
    /\ references = <<>>
    /\ referenced_by = <<>>
    /\ root_pk = <<>>
    /\ seeds = <<>>
    /\ collected = [t \in Tables |-> <<>>]
    /\ table_order = <<>>
    /\ pk_cache = <<>>
    /\ q = <<>>
    /\ cur = NoEntry
    /\ idx = 0
    /\ ordered_tables = <<>>
    /\ ti = 0
    /\ ri = 0
    /\ pc = "clear"
    /\ err = "none"
    /\ attempts = <<>>
    /\ commits = <<>>
    /\ faults = 0
    /\ enq = <<>>
    /\ expanded = {}
    /\ dangling = {}
    /\ pk_calls = [t \in Tables |-> 0]
    /\ out = <<>>
    /\ uncleared = {}
    /\ run = 1
    /\ first = NoRun

(***************************************************************************)
(* Actions: main(), one database call (or one in-memory loop) at a time.   *)
(***************************************************************************)
\* lines 104-109: TRUNCATE TABLE for every table of the target; a TRUNCATE
\* that raises is printed as a warning and the table keeps its rows
truncate(tbl, failed) == [t \in Tables |-> IF t \in failed THEN tbl[t] ELSE {}]

\* lines 136-137: clear_target_database and commit
ClearTarget ==
    /\ pc = "clear"
    /\ \E failed \in SUBSET {t \in Tables : target[t] # {}} :
          /\ Cardinality(failed) <= MaxTruncateFaults
          /\ target' = truncate(target, failed)
          /\ uncleared' = failed
    /\ pc' = "discover"
    /\ UNCHANGED <<inputs, runs, references, referenced_by, root_pk, seeds, traversal,
                   materialization, err, out>>

\* line 142: discover_fk
DiscoverFk ==
    /\ pc = "discover"
    /\ references' = discover_references(catalog.fk)
    /\ referenced_by' = discover_referenced_by(catalog.fk)
    /\ pc' = "root_pk"
    /\ UNCHANGED <<inputs, runs, uncleared, target, root_pk, seeds, traversal, materialization, err,
                   out>>

\* line 146: get_pk of the root table
GetRootPk ==
    /\ pc = "root_pk"
    /\ root_pk' = get_pk(root_table)
    /\ pk_calls' = [pk_calls EXCEPT ![root_table] = @ + 1]
    /\ pc' = "select"
    /\ UNCHANGED <<inputs, runs, uncleared, target, references, referenced_by, seeds, collected,
                   table_order, pk_cache, q, cur, idx, enq, expanded, dangling,
                   materialization, err, out>>

\* lines 153-166: the seed query; main returns when it selects nothing
SelectSeeds ==
    /\ pc = "select"
    /\ \E s \in Orderings(city_rows) :
          /\ seeds' = s
          /\ pc' = IF s = <<>> THEN "done" ELSE "seed"
          /\ idx' = IF s = <<>> THEN idx ELSE 1
    /\ UNCHANGED <<inputs, runs, uncleared, target, references, referenced_by, root_pk, collected,
                   table_order, pk_cache, q, cur, enq, expanded, dangling, pk_calls,
                   materialization, err, out>>

\* lines 180-183: one iteration of the seeding loop
Seed ==
    /\ pc = "seed"
    /\ SetTrav(SeedRow(Trav, seeds[idx]))
    /\ IF idx < Len(seeds)
       THEN /\ idx' = idx + 1
            /\ pc' = "seed"
       ELSE /\ idx' = 0
            /\ pc' = "loop"
    /\ UNCHANGED <<inputs, runs, uncleared, target, references, referenced_by, root_pk, seeds, cur,
                   expanded, dangling, materialization, err, out>>

\* mutant of popleft: the head is read, q[0], and stays in the queue
peek(queue) == queue

\* deque.popleft(): what is left of the queue
popleft(queue) == Tail(queue)

\* lines 189-191: pop an entry and look its row up
Dequeue ==
    /\ pc = "loop"
    /\ q # <<>>
    /\ cur' = [table |-> Head(q).table, pk_cols |-> Head(q).pk_cols,
               pk_key |-> Head(q).pk_key,
               row |-> DictGet(collected[Head(q).table], Head(q).pk_key)]
    /\ q' = popleft(q)
    /\ Goto(AfterIter(Head(q).table, "parents", 0))
    /\ UNCHANGED <<inputs, runs, uncleared, target, references, referenced_by, root_pk, seeds, collected,
                   table_order, pk_cache, enq, dangling, pk_calls, materialization, err,
                   out>>

\* the edge the parent loop is at: (parent_tbl, fk_col, parent_pk_col)
ParentEdge == references[cur.table][idx]

\* mutant of MissingParent: a missing parent ends the expansion of the row
\* (break for continue)
MissingParentBreaks ==
    /\ dangling' = dangling \cup {<<cur.table, cur.pk_key, idx>>}
    /\ Goto(<<"loop", 0>>)
    /\ UNCHANGED <<collected, table_order, pk_cache, q, enq, pk_calls>>

\* lines 202-203: fetchone() returned None; the row's loops go on
MissingParent ==
    /\ dangling' = dangling \cup {<<cur.table, cur.pk_key, idx>>}
    /\ Goto(AfterIter(cur.table, "parents", idx))
    /\ UNCHANGED <<collected, table_order, pk_cache, q, enq, pk_calls>>

\* lines 194-208: one outgoing foreign key of the row
FollowParent ==
    /\ pc = "parents"
    /\ cur' = cur
    /\ IF cur.row[ParentEdge[2]] = NULL
       THEN /\ Goto(AfterIter(cur.table, "parents", idx))
            /\ UNCHANGED <<collected, table_order, pk_cache, q, enq, pk_calls, dangling>>
       ELSE IF fetchone(ParentEdge[1], ParentEdge[3], cur.row[ParentEdge[2]]) = {}
       THEN MissingParent
       ELSE /\ \E parent \in fetchone(ParentEdge[1], ParentEdge[3], cur.row[ParentEdge[2]]) :
                  SetTrav(Collect(Trav, ParentEdge[1], parent))
            /\ Goto(AfterIter(cur.table, "parents", idx))
            /\ UNCHANGED dangling
    /\ UNCHANGED <<inputs, runs, uncleared, target, references, referenced_by, root_pk, seeds,
                   materialization, err, out>>

\* lines 211-225: one incoming foreign key of the row
FollowChildren ==
    /\ pc = "children"
    /\ LET e             == referenced_by[cur.table][idx]
           child_tbl     == e[1]
           child_fk_col  == e[2]
           child_ref_col == e[3]
           val           == cur.row[child_ref_col]
       IN  IF val = NULL
           THEN UNCHANGED <<collected, table_order, pk_cache, q, enq, pk_calls>>
           ELSE \E rows \in Orderings(fetchall(child_tbl, child_fk_col, val)) :
                    SetTrav(CollectAll(Trav, child_tbl, rows))
    /\ cur' = cur
    /\ Goto(AfterIter(cur.table, "children", idx))
    /\ UNCHANGED <<inputs, runs, uncleared, target, references, referenced_by, root_pk, seeds, dangling,
                   materialization, err, out>>

\* whether main() is about to send a query to the source
IssuesQuery ==
    \/ pc \in {"discover", "root_pk", "select"}
    \/ pc = "parents" /\ cur.row[references[cur.table][idx][2]] # NULL
    \/ pc = "children" /\ cur.row[referenced_by[cur.table][idx][3]] # NULL

\* mutant of Raise: the loop body catches the error of a lookup, prints it
\* and goes on with the next queue entry
RaiseCaught ==
    /\ err' = "FetchError"
    /\ pc' = IF pc \in {"parents", "children"} THEN "loop" ELSE "failed"

\* a source query raises: nothing in main() catches it
Raise ==
    /\ err' = "FetchError"
    /\ pc' = "failed"

FetchError ==
    /\ IssuesQuery
    /\ Raise
    /\ UNCHANGED <<inputs, runs, uncleared, target, references, referenced_by, root_pk, seeds, traversal,
                   materialization, out>>

\* lines 228-229: one line per collected table, with its number of rows
summary(order) ==
    [i \in 1..Len(order) |->
        [line |-> "summary", table |-> order[i], n |-> Len(collected[order[i]])]]

\* line 238: the line that opens the inserts of a table
inserting(t) == [line |-> "inserting", table |-> t, n |-> Len(collected[t])]

\* mutant of warn: the except clause is "pass"
warn_pass(lines, result) == lines

\* line 243: print("   [warn] skipping:", e) for an insert that raised; the
\* line carries the text of the exception and nothing else
warn(lines, result) ==
    IF result = "ok" THEN lines ELSE Append(lines, [line |-> "warn", cause |-> result])

\* lines 227-238: the queue is empty; print the summary, order the collected
\* tables and enter the insert loop
Sort ==
    /\ pc = "loop"
    /\ q = <<>>
    /\ ordered_tables' = sort(table_order)
    /\ out' = out \o summary(table_order) \o <<inserting(sort(table_order)[1])>>
    /\ ti' = 1
    /\ ri' = 1
    /\ pc' = "insert"
    /\ UNCHANGED <<inputs, runs, uncleared, target, references, referenced_by, root_pk, seeds, traversal,
                   attempts, commits, faults, err>>

\* mutant of AfterInsert: the try is around the loop over the rows, a failed
\* insert ends the table
AfterInsertEndsTable(table, result) ==
    IF ri < Len(collected[table]) /\ result = "ok"
    THEN /\ ri' = ri + 1
         /\ pc' = "insert"
    ELSE /\ ri' = ri
         /\ pc' = "commit"

\* what an except clause of lines 240-243 does after a failed insert: go on
\* with the next row
AfterInsert(table, result) ==
    IF ri < Len(collected[table])
    THEN /\ ri' = ri + 1
         /\ pc' = "insert"
    ELSE /\ ri' = ri
         /\ pc' = "commit"

\* the target has the primary keys of the catalog: an insert is refused when
\* the table holds a row with the same key
Duplicate(table, row) ==
    /\ get_pk(table) # <<>>
    /\ \E p \in target[table] : RowKey(p, get_pk(table)) = RowKey(row, get_pk(table))

\* the reasons for which the target refuses a row
Refusals(table, row) ==
    (IF FkSatisfied(table, row) THEN {} ELSE {"fk"})
        \cup (IF Duplicate(table, row) THEN {"duplicate"} ELSE {})

\* lines 239-243: insert one row; a refused insert is printed and skipped
InsertRow ==
    /\ pc = "insert"
    /\ LET table == ordered_tables[ti]
           entry == collected[table][ri]
       IN  /\ \E result \in {"ok", "fk", "duplicate", "error"} :
                 /\ result \in {"fk", "duplicate"} => result \in Refusals(table, entry.row)
                 /\ result \in {"ok", "error"} => Refusals(table, entry.row) = {}
                 /\ result = "error" => faults < MaxInsertFaults
                 /\ attempts' = Append(attempts, [table |-> table, key |-> entry.key,
                                                  row |-> entry.row, result |-> result])
                 /\ target' = IF result = "ok"
                              THEN [target EXCEPT ![table] = @ \cup {entry.row}]
                              ELSE target
                 /\ faults' = IF result = "error" THEN faults + 1 ELSE faults
                 /\ out' = warn(out, result)
                 /\ AfterInsert(table, result)
    /\ UNCHANGED <<inputs, runs, uncleared, references, referenced_by, root_pk, seeds, traversal,
                   ordered_tables, ti, commits, err>>

\* mutant of Commit: tgt.commit() stands after the loop over the tables
CommitAfterLoop ==
    /\ pc = "commit"
    /\ commits' = IF ti < Len(ordered_tables) THEN commits
                  ELSE Append(commits, [table |-> ordered_tables[ti], at |-> Len(attempts),
                                        rows |-> target[ordered_tables[ti]]])
    /\ IF ti < Len(ordered_tables)
       THEN /\ ti' = ti + 1
            /\ ri' = 1
            /\ out' = Append(out, inserting(ordered_tables[ti + 1]))
            /\ pc' = "insert"
       ELSE /\ ti' = ti
            /\ ri' = ri
            /\ out' = out
            /\ pc' = "done"
    /\ UNCHANGED <<inputs, runs, uncleared, target, references, referenced_by, root_pk, seeds, traversal,
                   ordered_tables, attempts, faults, err>>

\* line 245: commit the table, with the rows it holds in the target, and go
\* to the next one
Commit ==
    /\ pc = "commit"
    /\ commits' = Append(commits, [table |-> ordered_tables[ti], at |-> Len(attempts),
                                   rows |-> target[ordered_tables[ti]]])
    /\ IF ti < Len(ordered_tables)
       THEN /\ ti' = ti + 1
            /\ ri' = 1
            /\ out' = Append(out, inserting(ordered_tables[ti + 1]))
            /\ pc' = "insert"
       ELSE /\ ti' = ti
            /\ ri' = ri
            /\ out' = out
            /\ pc' = "done"
    /\ UNCHANGED <<inputs, runs, uncleared, target, references, referenced_by, root_pk, seeds, traversal,
                   ordered_tables, attempts, faults, err>>

Next ==
    \/ ClearTarget
    \/ DiscoverFk
    \/ GetRootPk
    \/ SelectSeeds
    \/ Seed
    \/ Dequeue
    \/ FollowParent
    \/ FollowChildren
    \/ FetchError
    \/ Sort
    \/ InsertRow
    \/ Commit

Spec == Init /\ [][Next]_vars

\* the rows of a table that were inserted without error
Inserted(t) == {i \in DOMAIN attempts : attempts[i].table = t /\ attempts[i].result = "ok"}

\* lines 249-250: the script is started again when its first run has ended
\* normally, over the same source and configuration, on the target that
\* run 1 filled
Rerun ==
    /\ pc = "done"
    /\ run = 1
    /\ run' = 2
    /\ first' = [ended |-> TRUE,
                 collected |-> [t \in Tables |-> Len(collected[t])],
                 inserted |-> [t \in Tables |-> Cardinality(Inserted(t))],
                 faults |-> faults,
                 uncleared |-> uncleared]
    /\ references' = <<>>
    /\ referenced_by' = <<>>
    /\ root_pk' = <<>>
    /\ seeds' = <<>>
    /\ collected' = [t \in Tables |-> <<>>]
    /\ table_order' = <<>>
    /\ pk_cache' = <<>>
    /\ q' = <<>>
    /\ cur' = NoEntry
    /\ idx' = 0
    /\ ordered_tables' = <<>>
    /\ ti' = 0
    /\ ri' = 0
    /\ pc' = "clear"
    /\ err' = "none"
    /\ attempts' = <<>>
    /\ commits' = <<>>
    /\ faults' = 0
    /\ enq' = <<>>
    /\ expanded' = {}
    /\ dangling' = {}
    /\ pk_calls' = [t \in Tables |-> 0]
    /\ out' = <<>>
    /\ uncleared' = {}
    /\ UNCHANGED <<inputs, target>>

NextRerun ==
    \/ Next
    \/ Rerun

\* two runs of the script, one after the other
RerunSpec == Init /\ [][NextRerun]_vars

\* main() is one thread that runs until it returns or raises
FairSpec == Spec /\ WF_vars(Next)

(***************************************************************************)
(* Properties.                                                             *)
(***************************************************************************)
\* the rows collected for a table
Rows(t) == {collected[t][i].row : i \in DOMAIN collected[t]}

\* the while loop of line 189 has ended on an empty queue
TraversalFinished ==
    /\ err = "none"
    /\ seeds # <<>>
    /\ (pc = "loop" /\ q = <<>>) \/ pc \in {"insert", "commit", "done"}

\* every table of the source has a primary key
HasAllPk == \A t \in Tables : get_pk(t) # <<>>

\* row r of table t references row p of table pt through a declared foreign key
RefersTo(t, r, pt, p) ==
    \E i \in DOMAIN Get(references, t) :
        /\ references[t][i][1] = pt
        /\ r[references[t][i][2]] # NULL
        /\ p[references[t][i][3]] = r[references[t][i][2]]

\* C1: when the traversal has finished without error and every table has a
\* primary key, each non-null outgoing foreign key of a collected row has a
\* referenced row in the Collected Set, unless the source holds no such row.
ParentCompleteness ==
    (TraversalFinished /\ HasAllPk) =>
        \A t \in Tables : \A r \in Rows(t) : \A i \in DOMAIN Get(references, t) :
            LET e == references[t][i]
            IN  r[e[2]] # NULL =>
                    \/ \E p \in Rows(e[1]) : p[e[3]] = r[e[2]]
                    \/ ~ \E p \in source[e[1]] : p[e[3]] = r[e[2]]

\* a finished traversal that collected a parent and, through it, the
\* parent's own parent, both outside the root table
ParentCompletenessWitness ==
    /\ TraversalFinished
    /\ HasAllPk
    /\ \E t \in Tables, pt \in Tables \ {root_table}, gt \in Tables \ {root_table} :
          \E r \in Rows(t), p \in Rows(pt), g \in Rows(gt) :
              /\ pt # gt
              /\ RefersTo(t, r, pt, p)
              /\ RefersTo(pt, p, gt, g)

\* C2: when the traversal has finished without error and every table has a
\* primary key, every source row that references a collected row through a
\* declared foreign key is collected too.
ChildCompleteness ==
    (TraversalFinished /\ HasAllPk) =>
        \A t \in Tables : \A r \in Rows(t) : \A i \in DOMAIN Get(referenced_by, t) :
            LET e == referenced_by[t][i]
            IN  r[e[3]] # NULL =>
                    \A c \in source[e[1]] : c[e[2]] = r[e[3]] => c \in Rows(e[1])

\* a finished traversal in which a collected row has two children in a table
\* that is not the root table
ChildCompletenessWitness ==
    /\ TraversalFinished
    /\ HasAllPk
    /\ \E t \in Tables : \E r \in Rows(t) : \E i \in DOMAIN Get(referenced_by, t) :
          LET e == referenced_by[t][i]
          IN  /\ e[1] # root_table
              /\ r[e[3]] # NULL
              /\ Cardinality({c \in Rows(e[1]) : c[e[2]] = r[e[3]]}) >= 2

\* C3: the run returns early, raises on a failed source query, or its
\* traversal loop reaches an empty queue.
Termination == <>(pc = "done" \/ pc = "failed" \/ (pc = "loop" /\ q = <<>>))

\* the loop has ended on an empty queue after collecting two rows that
\* reference each other (two employees, or a customer and an employee)
TerminationWitness ==
    /\ TraversalFinished
    /\ pc = "loop"
    /\ \E t \in Tables, pt \in Tables : \E r \in Rows(t), p \in Rows(pt) :
          /\ <<t, r>> # <<pt, p>>
          /\ RefersTo(t, r, pt, p)
          /\ RefersTo(pt, p, t, r)

\* C4: no (table, Row Key) pair is appended to the queue more than once,
\* the seeding loop and the expansion counted together.
AtMostOnceEnqueue == \A e \in DOMAIN enq : enq[e] <= 1

\* C5: a step never removes or replaces an entry of the Collected Set: each
\* key present before the step is present after it, with the same row.
MonotonicCollected ==
    [][\A t \in Tables : \A k \in Keys(collected[t]) :
          /\ k \in Keys(collected'[t])
          /\ DictGet(collected'[t], k) = DictGet(collected[t], k)]_vars

\* C6: a parent lookup that finds no row neither raises nor ends the
\* expansion of the row: the row stays collected, no row is collected for
\* the missing parent, and once the row is expanded each of its other parent
\* lookups and each of its child scans has its result in the Collected Set.
DanglingTolerated ==
    /\ err \in {"none", "FetchError"}
    /\ \A d \in dangling :
          LET t   == d[1]
              key == d[2]
              e   == references[t][d[3]]
          IN  /\ key \in Keys(collected[t])
              /\ LET row == DictGet(collected[t], key)
                 IN  /\ ~ \E p \in Rows(e[1]) : p[e[3]] = row[e[2]]
                     /\ <<t, key>> \in expanded =>
                          /\ \A j \in DOMAIN references[t] :
                                LET f == references[t][j]
                                IN  \A p \in source[f[1]] :
                                       (row[f[2]] # NULL /\ p[f[3]] = row[f[2]]) =>
                                           RowKey(p, get_pk(f[1])) \in Keys(collected[f[1]])
                          /\ \A j \in DOMAIN Get(referenced_by, t) :
                                LET f == referenced_by[t][j]
                                IN  \A c \in source[f[1]] :
                                       (row[f[3]] # NULL /\ c[f[2]] = row[f[3]]) =>
                                           RowKey(c, get_pk(f[1])) \in Keys(collected[f[1]])

\* two expanded rows with a dangling reference: for one a later parent edge
\* found its parent, for the other a child scan found a row that is no seed
DanglingToleratedWitness ==
    /\ pc # "failed"
    /\ \E d \in dangling :
          /\ <<d[1], d[2]>> \in expanded
          /\ \E j \in DOMAIN references[d[1]] :
                /\ j > d[3]
                /\ \E p \in Rows(references[d[1]][j][1]) :
                      RefersTo(d[1], DictGet(collected[d[1]], d[2]),
                               references[d[1]][j][1], p)
    /\ \E d \in dangling :
          /\ <<d[1], d[2]>> \in expanded
          /\ \E j \in DOMAIN Get(referenced_by, d[1]) :
                LET f == referenced_by[d[1]][j]
                IN  \E c \in Rows(f[1]) \ Range(seeds) :
                       /\ c[f[2]] # NULL
                       /\ c[f[2]] = DictGet(collected[d[1]], d[2])[f[3]]

\* C7: a failed source query leaves main() as an exception, and no row is
\* inserted into the target nor committed in that run.
NoPartialMaterialization ==
    err # "none" => (pc = "failed" /\ attempts = <<>> /\ commits = <<>>)

\* a query failed in the middle of the traversal, after rows of a table
\* other than the root table were collected
NoPartialMaterializationWitness ==
    /\ err = "FetchError"
    /\ pc = "failed"
    /\ \E t \in Tables \ {root_table} : collected[t] # <<>>
    /\ q # <<>>

\* the insert attempts made for a collected entry
AttemptsOf(t, key) == {j \in DOMAIN attempts : attempts[j].table = t /\ attempts[j].key = key}

\* the number of collected rows, all tables together
RECURSIVE CountRows(_)
CountRows(ts) ==
    IF ts = {} THEN 0
    ELSE LET t == CHOOSE x \in ts : TRUE
         IN  Len(collected[t]) + CountRows(ts \ {t})

\* C8: no collected row is ever attempted twice, a failed insert does not
\* raise, the materialization can always take its next step, and at the
\* normal end every collected row was attempted exactly once.
InsertFailuresIsolated ==
    /\ \A t \in Tables : \A k \in Keys(collected[t]) : Cardinality(AttemptsOf(t, k)) <= 1
    /\ attempts # <<>> => err = "none"
    /\ pc \in {"insert", "commit"} => ENABLED Next
    /\ (pc = "done" /\ seeds # <<>>) =>
          /\ \A t \in Tables : \A k \in Keys(collected[t]) :
                Cardinality(AttemptsOf(t, k)) = 1
          /\ Len(attempts) = CountRows(Tables)

\* the run ended normally after an insert failed, a later row of the same
\* table was attempted and a row of a following table was attempted
InsertFailuresIsolatedWitness ==
    /\ pc = "done"
    /\ \E i, j, k \in DOMAIN attempts :
          /\ i < j
          /\ i < k
          /\ attempts[i].result # "ok"
          /\ attempts[j].table = attempts[i].table
          /\ attempts[k].table # attempts[i].table

\* table child declares a foreign key on table parent
References(child, parent) ==
    \E e \in Range(catalog.fk) : e.TABLE_NAME = child /\ e.REFERENCED_TABLE_NAME = parent

\* C9: for every foreign key between two distinct tables, no row of the
\* child table is inserted before a row of the parent table.
ParentsFirst ==
    \A i, j \in DOMAIN attempts :
        (i < j /\ attempts[i].table # attempts[j].table) =>
            ~References(attempts[i].table, attempts[j].table)

\* no foreign key value of the source is dangling
NoDanglingInSource ==
    \A e \in Range(catalog.fk) : \A r \in source[e.TABLE_NAME] :
        r[e.COLUMN_NAME] # NULL =>
            \E p \in source[e.REFERENCED_TABLE_NAME] :
                p[e.REFERENCED_COLUMN_NAME] = r[e.COLUMN_NAME]

\* along every foreign key between two distinct collected tables the child
\* table declares more foreign keys than the parent table
EdgeCountsIncrease ==
    \A e \in Range(catalog.fk) :
        (/\ e.TABLE_NAME # e.REFERENCED_TABLE_NAME
         /\ e.TABLE_NAME \in Range(table_order)
         /\ e.REFERENCED_TABLE_NAME \in Range(table_order)) =>
            RefCount(e.TABLE_NAME) > RefCount(e.REFERENCED_TABLE_NAME)

\* C10: without dangling references in the source and with edge counts that
\* increase from parent to child, no insert is refused for a foreign key.
\* (Stated for the runs in which the target was cleared, every table has a
\* primary key and no insert fails for another reason, where nothing but the
\* order of the inserts can make the target refuse a row.)
InsertOrderTolerance ==
    (/\ pc \in {"insert", "commit", "done"}
     /\ uncleared = {}
     /\ HasAllPk
     /\ NoDanglingInSource
     /\ EdgeCountsIncrease
     /\ \A i \in DOMAIN attempts : attempts[i].result # "error") =>
        \A i \in DOMAIN attempts : attempts[i].result # "fk"

\* C11: when the script is run a second time over the same source, both
\* runs cleared the target and no insert of either run failed for a reason
\* other than a foreign key, the second run collects and inserts as many rows
\* of each table as the first.
IdempotentRerun ==
    (/\ run = 2
     /\ pc = "done"
     /\ faults = 0
     /\ uncleared = {}
     /\ first.faults = 0
     /\ first.uncleared = {}) =>
        \A t \in Tables :
            /\ Len(collected[t]) = first.collected[t]
            /\ Cardinality(Inserted(t)) = first.inserted[t]

\* C12: once ensure_pk has found no primary key for a table that the
\* expansion reached, the run has stopped with an error and no row of that
\* table was collected by the expansion.
MissingPkFatal ==
    \A t \in DOMAIN pk_cache :
        pk_cache[t] = <<>> =>
            /\ pc = "failed"
            /\ t # root_table => collected[t] = <<>>

\* where a table stands in collected.keys()
Pos(order, t) == CHOOSE i \in DOMAIN order : order[i] = t

Since(c) == ((IF c = 1 THEN 0 ELSE commits[c - 1].at) + 1)..commits[c].at

\* C14: every table is committed once, right after its last insert attempt
\* and before the first attempt of the next table; the commit holds the rows
\* of the table whose insert succeeded, whatever happened to its other rows
\* (and no other row, when the table was cleared); no row is attempted a
\* second time.
OneCommitPerTable ==
    /\ \A c, d \in DOMAIN commits : commits[c].table = commits[d].table => c = d
    /\ \A c \in DOMAIN commits :
          /\ Since(c) # {}
          /\ \A i \in DOMAIN attempts : attempts[i].table = commits[c].table <=> i \in Since(c)
          /\ {attempts[i].row : i \in Inserted(commits[c].table)} \subseteq commits[c].rows
          /\ commits[c].table \notin uncleared =>
                commits[c].rows = {attempts[i].row : i \in Inserted(commits[c].table)}
    /\ \A i \in DOMAIN attempts :
          \/ \E c \in DOMAIN commits : commits[c].table = attempts[i].table
          \/ pc \in {"insert", "commit"} /\ attempts[i].table = ordered_tables[ti]
    /\ \A i, j \in DOMAIN attempts :
          (attempts[i].table = attempts[j].table /\ attempts[i].key = attempts[j].key) => i = j
    /\ (pc = "done" /\ seeds # <<>>) =>
          /\ Len(commits) = Len(table_order)
          /\ {commits[c].table : c \in DOMAIN commits} = Range(table_order)

\* a finished run with two commits, the first of a table of which one row was
\* inserted and another refused
OneCommitPerTableWitness ==
    /\ pc = "done"
    /\ Len(commits) >= 2
    /\ commits[1].rows # {}
    /\ \E i \in Since(1) : attempts[i].result # "ok"

\* C15: the catalog is asked for the primary key of a table at most once in
\* a run, whichever table it is.
PkMemoized == \A t \in Tables : pk_calls[t] <= 1

\* a printed line that names a table and a row key
Names(l, t, k) ==
    /\ "table" \in DOMAIN l
    /\ l.table = t
    /\ "key" \in DOMAIN l
    /\ l.key = k

Failed == SelectSeq(attempts, LAMBDA a : a.result # "ok")

\* the "[warn] skipping" lines, in the order they were printed
Warnings == SelectSeq(out, LAMBDA l : l.line = "warn")

CollectedPairs == UNION {{<<t, r>> : r \in Rows(t)} : t \in Tables}

SourcePairs == UNION {{<<t, r>> : r \in source[t]} : t \in Tables}

SeedPairs == {<<root_table, r>> : r \in Range(seeds)}

\* one foreign-key hop between two rows, in either direction
Adjacent(x, y) ==
    \/ RefersTo(x[1], x[2], y[1], y[2])
    \/ RefersTo(y[1], y[2], x[1], x[2])

\* the rows of U that chains of hops inside U link to a row of S
RECURSIVE Linked(_, _)
Linked(S, U) ==
    LET more == {x \in U \ S : \E y \in S : Adjacent(x, y)}
    IN  IF more = {} THEN S ELSE Linked(S \cup more, U)

\* C17: every collected row is a row of the source and is a seed row or is
\* linked to a collected seed row by foreign-key hops through collected rows;
\* when the traversal has finished and every table has a primary key, the
\* collected rows are exactly the source rows that hops link to the seeds.
ClosureSound ==
    /\ CollectedPairs \subseteq SourcePairs
    /\ Linked(SeedPairs \cap CollectedPairs, CollectedPairs) = CollectedPairs
    /\ (TraversalFinished /\ HasAllPk) => CollectedPairs = Linked(SeedPairs, SourcePairs)

\* a finished traversal that collected a row that is no seed and left out a
\* row of a table it collected from
ClosureSoundWitness ==
    /\ TraversalFinished
    /\ HasAllPk
    /\ CollectedPairs \ SeedPairs # {}
    /\ \E x \in SourcePairs \ CollectedPairs : Rows(x[1]) # {}

\* C18: every queue entry is a (table, pk_cols, pk_key) triple whose key is
\* in the Collected Set of its table, and the row being expanded is the one
\* the Collected Set holds under the key of the popped entry.
QueueResolvable ==
    /\ \A i \in DOMAIN q :
          /\ DOMAIN q[i] = {"table", "pk_cols", "pk_key"}
          /\ q[i].pk_key \in Keys(collected[q[i].table])
    /\ pc \in {"parents", "children"} =>
          /\ cur.pk_key \in Keys(collected[cur.table])
          /\ cur.row = DictGet(collected[cur.table], cur.pk_key)

\* a row that is not of the root table is being expanded while a row of a
\* third table waits in the queue
QueueResolvableWitness ==
    /\ pc \in {"parents", "children"}
    /\ cur.table # root_table
    /\ \E i \in DOMAIN q : q[i].table \notin {root_table, cur.table}

\* C19: nothing is read from the source before the target is cleared; from
\* then on the target holds the rows that this run inserted and no other, so
\* it is empty when the run ends early on an empty seed set or a failed
\* source query.
TargetClearedFirst ==
    /\ pc = "clear" =>
          /\ references = <<>>
          /\ referenced_by = <<>>
          /\ seeds = <<>>
          /\ \A t \in Tables : pk_calls[t] = 0 /\ collected[t] = <<>>
          /\ err = "none"
    /\ pc # "clear" =>
          \A t \in Tables : target[t] = {attempts[i].row : i \in Inserted(t)}
    /\ (pc = "failed" \/ (pc = "done" /\ seeds = <<>>)) =>
          \A t \in Tables : target[t] = {}

\* what the Collected Set holds of the tables without primary key: at most
\* one row per table, under the key (); for the root table it is the seed row
\* that the seeding loop handled last
Collapsed ==
    \A t \in Tables :
        get_pk(t) = <<>> =>
            /\ Keys(collected[t]) \subseteq {<<>>}
            /\ Len(collected[t]) <= 1
            /\ (t = root_table /\ collected[t] # <<>>) =>
                  collected[t][1].row =
                      seeds[IF pc = "seed" /\ idx > 0 THEN idx - 1 ELSE Len(seeds)]

====
